---------------------------- MODULE Spec2Model ----------------------------
(***************************************************************************)
(* Model of the web-server log-line parser (neurons/parsing.py) and of the *)
(* validator's reward function (neurons/validator.py).                     *)
(*                                                                         *)
(* Text is a sequence of one-character strings.  A Python value is a       *)
(* tagged record: PyStr(t) for a str, PyInt(n) for an int, a datetime    *)
(* record for a datetime.    The sentinel INVALID is the str "INVALID",    *)
(* as in the source.                                                       *)
(***************************************************************************)
EXTENDS Integers, Sequences, FiniteSets, TLC

VARIABLES
    logline_input,      \* parse's argument
    remaining_logline,  \* the working copy the loop shrinks
    extracted_info,     \* dict: pattern key -> match, then field -> value
    pc,                 \* position in parse / reward
    raised,             \* the exception that left parse, or "none"
    tokens,             \* the field tokens the input was built from
    variant,            \* how the input was built from them
    response,           \* reward's argument: the record a miner answered
    score               \* reward's result, <<numerator, denominator>>

vars == <<logline_input, remaining_logline, extracted_info, pc, raised,
          tokens, variant, response, score>>

-----------------------------------------------------------------------------
(* Characters and text *)

Digits == {"0", "1", "2", "3", "4", "5", "6", "7", "8", "9"}

\* \d of the re module, on the ASCII characters used here
IsDigit(c) == c \in Digits

\* the complement of \S
IsSpace(c) == c = " "

Dot == "."

DigitVal(c) ==
    CASE c = "0" -> 0 [] c = "1" -> 1 [] c = "2" -> 2 [] c = "3" -> 3
      [] c = "4" -> 4 [] c = "5" -> 5 [] c = "6" -> 6 [] c = "7" -> 7
      [] c = "8" -> 8 [] c = "9" -> 9

\* s[a..b] cut to the text, as a Python slice is; empty when b < a
Slice(s, a, b) ==
    LET lo == IF a < 1 THEN 1 ELSE a
        hi == IF b > Len(s) THEN Len(s) ELSE b
    IN IF hi < lo THEN <<>> ELSE SubSeq(s, lo, hi)

\* s with s[a..b] removed: re.sub(pattern, '', s, count=1) for the match a..b
Remove(s, a, b) == Slice(s, 1, a - 1) \o Slice(s, b + 1, Len(s))

\* int(text) for a run of decimal digits
RECURSIVE int(_)
int(t) == IF t = <<>> THEN 0 ELSE 10 * int(Slice(t, 1, Len(t) - 1)) + DigitVal(t[Len(t)])

\* the character at i, or "" outside the text (what a look-around sees there)
At(s, i) == IF i >= 1 /\ i <= Len(s) THEN s[i] ELSE ""

\* the length of the run of digits of s that starts at i
RECURSIVE DigitRun(_, _)
DigitRun(s, i) == IF IsDigit(At(s, i)) THEN 1 + DigitRun(s, i + 1) ELSE 0

\* the length of the run of non-space characters of s that starts at i
RECURSIVE NonSpaceRun(_, _)
NonSpaceRun(s, i) ==
    IF i <= Len(s) /\ ~IsSpace(s[i]) THEN 1 + NonSpaceRun(s, i + 1) ELSE 0

Min(S) == CHOOSE x \in S : \A y \in S : x <= y
Max(S) == CHOOSE x \in S : \A y \in S : x >= y

-----------------------------------------------------------------------------
(* Python values *)

PyStr(t) == [kind |-> "str", v |-> t]
PyInt(n) == [kind |-> "int", v |-> n]
NoMatch == [found |-> FALSE]

INVALID == PyStr(<<"I", "N", "V", "A", "L", "I", "D">>)

Get == <<"G", "E", "T">>
Post == <<"P", "O", "S", "T">>
Put_ == <<"P", "U", "T">>
Delete == <<"D", "E", "L", "E", "T", "E">>

METHODS == {Get, Post, Put_, Delete}

\* ParsedWebserverLogLine.__annotations__.keys()
FIELDS == {"ip", "timestamp", "method", "url", "protocol", "status_code", "bytes_sent"}

-----------------------------------------------------------------------------
(* The five patterns.  Each search returns NoMatch or the leftmost match   *)
(* [found, start, stop, groups] the backtracking matcher finds first.      *)

\* \d{1,3}\. at i: the digit run at i has 1..3 digits and a dot follows;
\* the position after the dot, or 0
OctetDot(s, i) ==
    LET n == DigitRun(s, i)
    IN IF i > 0 /\ n >= 1 /\ n <= 3 /\ At(s, i + n) = Dot THEN i + n + 1 ELSE 0

\* the stop of \d{1,3}\.\d{1,3}\.\d{1,3}\.\d{1,3} matched at i, or 0
IpStopAt(s, i) ==
    LET a == OctetDot(s, i)
        b == OctetDot(s, a)
        c == OctetDot(s, b)
        n == IF c > 0 THEN DigitRun(s, c) ELSE 0
    IN IF n >= 1 THEN c + (IF n > 3 THEN 3 ELSE n) - 1 ELSE 0

search_ip(s) ==
    LET starts == {i \in 1..Len(s) : IpStopAt(s, i) > 0}
    IN IF starts = {} THEN NoMatch
       ELSE LET i == Min(starts)
                j == IpStopAt(s, i)
            IN [found |-> TRUE, start |-> i, stop |-> j,
                groups |-> [group0 |-> Slice(s, i, j)]]

\* \[(?P<timestamp>.*?)\]
search_timestamp(s) ==
    LET opens == {i \in 1..Len(s) : s[i] = "[" /\ \E j \in (i + 1)..Len(s) : s[j] = "]"}
    IN IF opens = {} THEN NoMatch
       ELSE LET i == Min(opens)
                j == Min({k \in (i + 1)..Len(s) : s[k] = "]"})
            IN [found |-> TRUE, start |-> i, stop |-> j,
                groups |-> [timestamp |-> Slice(s, i + 1, j - 1)]]

\* ' (?P<url>/\S+) (?P<protocol>HTTP/\d\.\d)"' with its leading space at p:
\* the stop (the closing quote), or 0
RequestTailStop(s, p) ==
    LET n == NonSpaceRun(s, p + 1)
        h == p + 1 + n
    IN IF /\ At(s, p) = " "
          /\ At(s, p + 1) = "/"
          /\ n >= 2
          /\ At(s, h) = " "
          /\ Slice(s, h + 1, h + 5) = <<"H", "T", "T", "P", "/">>
          /\ IsDigit(At(s, h + 6))
          /\ At(s, h + 7) = Dot
          /\ IsDigit(At(s, h + 8))
          /\ At(s, h + 9) = "\""
       THEN h + 9 ELSE 0

\* "(?P<method>.*) (?P<url>/\S+) (?P<protocol>HTTP/\d\.\d)": the leftmost
\* opening quote that some tail follows, and, .* being greedy, the last tail
search_request_info(s) ==
    LET tails == {p \in 1..Len(s) : RequestTailStop(s, p) > 0}
        quotes == {q \in 1..Len(s) : s[q] = "\"" /\ \E p \in tails : p > q}
    IN IF quotes = {} THEN NoMatch
       ELSE LET q == Min(quotes)
                p == Max(tails)
                h == p + 1 + NonSpaceRun(s, p + 1)
            IN [found |-> TRUE, start |-> q, stop |-> RequestTailStop(s, p),
                groups |-> [method |-> Slice(s, q + 1, p - 1),
                            url |-> Slice(s, p + 1, h - 1),
                            protocol |-> Slice(s, h + 1, h + 8)]]

\* [\d.]
DigitOrDot(c) == IsDigit(c) \/ c = Dot

\* (?<![\d.])\d{3}(?![\d.]) at i
StatusAt(s, i) ==
    /\ ~DigitOrDot(At(s, i - 1))
    /\ IsDigit(At(s, i)) /\ IsDigit(At(s, i + 1)) /\ IsDigit(At(s, i + 2))
    /\ ~DigitOrDot(At(s, i + 3))

search_status_code(s) ==
    LET starts == {i \in 1..Len(s) : StatusAt(s, i)}
    IN IF starts = {} THEN NoMatch
       ELSE LET i == Min(starts)
            IN [found |-> TRUE, start |-> i, stop |-> i + 2,
                groups |-> [group0 |-> Slice(s, i, i + 2)]]

\* \d+
search_bytes_sent(s) ==
    LET starts == {i \in 1..Len(s) : IsDigit(s[i])}
    IN IF starts = {} THEN NoMatch
       ELSE LET i == Min(starts)
                j == i + DigitRun(s, i) - 1
            IN [found |-> TRUE, start |-> i, stop |-> j,
                groups |-> [group0 |-> Slice(s, i, j)]]

\* the keys of patterns, in the dict's order
PatternKeys == <<"ip", "timestamp", "request_info", "status_code", "bytes_sent">>

\* re.search(patterns[key], s)
search(key, s) ==
    CASE key = "ip" -> search_ip(s)
      [] key = "timestamp" -> search_timestamp(s)
      [] key = "request_info" -> search_request_info(s)
      [] key = "status_code" -> search_status_code(s)
      [] key = "bytes_sent" -> search_bytes_sent(s)


-----------------------------------------------------------------------------
(* transform_extracted_info *)

\* the dotted quad t cut at its dots: the four octet texts
RECURSIVE SplitDots(_)
SplitDots(t) ==
    LET dots == {i \in 1..Len(t) : t[i] = Dot}
    IN IF dots = {} THEN <<t>>
       ELSE <<Slice(t, 1, Min(dots) - 1)>> \o SplitDots(Slice(t, Min(dots) + 1, Len(t)))

\* ipaddress.ip_address(ip) does not raise ValueError.  The text has matched
\* the ip pattern, so only IPv4Address can accept it: four octets, each at
\* most 255 and without a leading zero.
ip_address(t) ==
    LET octets == SplitDots(t)
    IN /\ Len(octets) = 4
       /\ \A k \in 1..4 :
            /\ Len(octets[k]) >= 1 /\ Len(octets[k]) <= 3
            /\ \A i \in 1..Len(octets[k]) : IsDigit(octets[k][i])
            /\ int(octets[k]) <= 255
            /\ (Len(octets[k]) > 1 => octets[k][1] # "0")

\* the month names of the log format
MonthNumber(t) ==
    CASE t = <<"J", "a", "n">> -> 1 [] t = <<"F", "e", "b">> -> 2
      [] t = <<"M", "a", "r">> -> 3 [] t = <<"A", "p", "r">> -> 4
      [] t = <<"M", "a", "y">> -> 5 [] t = <<"J", "u", "n">> -> 6
      [] t = <<"J", "u", "l">> -> 7 [] t = <<"A", "u", "g">> -> 8
      [] t = <<"S", "e", "p">> -> 9 [] t = <<"O", "c", "t">> -> 10
      [] t = <<"N", "o", "v">> -> 11 [] t = <<"D", "e", "c">> -> 12
      [] OTHER -> 0

AllDigits(t) == t # <<>> /\ \A i \in 1..Len(t) : IsDigit(t[i])

\* t is a date-time of the log format, dd/Mon/yyyy HH:MM:SS +zzzz
IsLogDate(t) ==
    /\ Len(t) = 26
    /\ AllDigits(Slice(t, 1, 2)) /\ t[3] = "/"
    /\ MonthNumber(Slice(t, 4, 6)) > 0 /\ t[7] = "/"
    /\ AllDigits(Slice(t, 8, 11)) /\ t[12] = " "
    /\ AllDigits(Slice(t, 13, 14)) /\ t[15] = ":"
    /\ AllDigits(Slice(t, 16, 17)) /\ t[18] = ":"
    /\ AllDigits(Slice(t, 19, 20)) /\ t[21] = " "
    /\ t[22] \in {"+", "-"} /\ AllDigits(Slice(t, 23, 26))
    /\ int(Slice(t, 1, 2)) \in 1..31 /\ int(Slice(t, 13, 14)) < 24
    /\ int(Slice(t, 16, 17)) < 60 /\ int(Slice(t, 19, 20)) < 60

\* dateutil.parser.parse(t): the datetime, or ParserError (a ValueError).
\* Of all the formats dateutil reads, the log format is the one modelled;
\* the bracket interiors the inputs below produce are of that format, "abc"
\* or empty, and dateutil rejects the last two.
parse_date(t) ==
    IF IsLogDate(t)
    THEN [ok |-> TRUE,
          value |-> [kind |-> "datetime",
                     year |-> int(Slice(t, 8, 11)),
                     month |-> MonthNumber(Slice(t, 4, 6)),
                     day |-> int(Slice(t, 1, 2)),
                     hour |-> int(Slice(t, 13, 14)),
                     minute |-> int(Slice(t, 16, 17)),
                     second |-> int(Slice(t, 19, 20)),
                     utcoffset |-> (IF t[22] = "-" THEN -1 ELSE 1)
                                   * (60 * int(Slice(t, 23, 24)) + int(Slice(t, 25, 26)))]]
    ELSE [ok |-> FALSE, error |-> "ParserError"]

\* d[k] = v
Put(d, k, v) == [x \in DOMAIN d \cup {k} |-> IF x = k THEN v ELSE d[x]]

\* del d[k]
Del(d, k) == [x \in DOMAIN d \ {k} |-> d[x]]

\* d.get(k) is not None
Has(d, k) == k \in DOMAIN d

\* lines 57-62
transform_ip(info) ==
    IF Has(info, "ip") /\ ip_address(info["ip"].groups.group0)
    THEN Put(info, "ip", PyStr(info["ip"].groups.group0))
    ELSE Put(info, "ip", INVALID)

\* lines 70-81 with line 77, the del of the request_info key, left out
transform_request_info_no_del(info) ==
    IF Has(info, "request_info")
    THEN LET g == info["request_info"].groups
             method == IF g.method \in METHODS THEN PyStr(g.method) ELSE INVALID
         IN Put(Put(Put(info, "method", method), "url", PyStr(g.url)),
                "protocol", PyStr(g.protocol))
    ELSE Put(Put(Put(info, "method", INVALID), "url", INVALID), "protocol", INVALID)

\* lines 70-81 with an unknown method invalidating the whole triple
transform_request_info_all_invalid(info) ==
    IF Has(info, "request_info") /\ info["request_info"].groups.method \in METHODS
    THEN LET g == info["request_info"].groups
         IN Del(Put(Put(Put(info, "method", PyStr(g.method)), "url", PyStr(g.url)),
                    "protocol", PyStr(g.protocol)),
                "request_info")
    ELSE Del(Put(Put(Put(info, "method", INVALID), "url", INVALID), "protocol", INVALID),
             "request_info")

\* lines 70-81
transform_request_info(info) ==
    IF Has(info, "request_info")
    THEN LET g == info["request_info"].groups
             method == IF g.method \in METHODS THEN PyStr(g.method) ELSE INVALID
         IN Del(Put(Put(Put(info, "method", method), "url", PyStr(g.url)),
                    "protocol", PyStr(g.protocol)),
                "request_info")
    ELSE Put(Put(Put(info, "method", INVALID), "url", INVALID), "protocol", INVALID)

\* lines 83-87 with the else branch left out
transform_status_code_no_else(info) ==
    IF Has(info, "status_code")
    THEN Put(info, "status_code", PyStr(info["status_code"].groups.group0))
    ELSE info

\* lines 83-87
transform_status_code(info) ==
    IF Has(info, "status_code")
    THEN Put(info, "status_code", PyStr(info["status_code"].groups.group0))
    ELSE Put(info, "status_code", INVALID)

\* lines 89-93
transform_bytes_sent(info) ==
    IF Has(info, "bytes_sent")
    THEN Put(info, "bytes_sent", PyInt(int(info["bytes_sent"].groups.group0)))
    ELSE Put(info, "bytes_sent", INVALID)

\* the whole function: [raised |-> "none", value |-> the dict], or the
\* exception that leaves it.  Only AttributeError is caught around parse_date.
transform_extracted_info(info) ==
    LET a == transform_ip(info)
        date == IF Has(info, "timestamp")
                THEN parse_date(info["timestamp"].groups.timestamp)
                ELSE [ok |-> TRUE, value |-> INVALID]
    IN IF ~date.ok
       THEN [raised |-> date.error]
       ELSE [raised |-> "none",
             value |-> transform_bytes_sent(transform_status_code(
                           transform_request_info(Put(a, "timestamp", date.value))))]

-----------------------------------------------------------------------------
(* parse *)

\* one iteration of the loop of lines 44-49
LoopBody(key, state) ==
    LET match == search(key, state.remaining_logline)
    IN IF match.found
       THEN [remaining_logline |-> Remove(state.remaining_logline, match.start, match.stop),
             extracted_info |-> Put(state.extracted_info, key, match)]
       ELSE state

\* the iterations of the loop for the i-th to the last-th key
RECURSIVE Loop(_, _, _)
Loop(i, last, state) ==
    IF i > last THEN state ELSE Loop(i + 1, last, LoopBody(PatternKeys[i], state))

EmptyDict == [x \in {} |-> 0]

\* parse(logline_input), as a function of its argument
parse(line) ==
    transform_extracted_info(
        Loop(1, Len(PatternKeys),
             [remaining_logline |-> line, extracted_info |-> EmptyDict]).extracted_info)

-----------------------------------------------------------------------------
(* Validator.reward *)

\* bool(v): an empty str and the int 0 are false
Truthy(v) ==
    CASE v.kind = "str" -> v.v # <<>>
      [] v.kind = "int" -> v.v # 0
      [] OTHER -> TRUE

\* lines 129-137: <<valid_keys, len(total_valid_keys)>>
reward(resp) ==
    LET counted == {k \in FIELDS :
                      /\ Has(resp, k) /\ Truthy(resp[k])
                      /\ resp[k] \notin {INVALID, PyStr(<<>>)}}
    IN <<Cardinality(counted), Cardinality(FIELDS)>>

-----------------------------------------------------------------------------
(* The texts the inputs are built from *)

\* 192.168.1.1
Ip_192_168_1_1 ==
    <<"1", "9", "2", ".", "1", "6", "8", ".", "1", ".", "1">>

\* 10.0.0.123
Ip_10_0_0_123 ==
    <<"1", "0", ".", "0", ".", "0", ".", "1", "2", "3">>

\* 300.1.1.1: matches the ip pattern, is no address
Ip_300_1_1_1 ==
    <<"3", "0", "0", ".", "1", ".", "1", ".", "1">>

\* 192.168.1: an address cut to three octets
Ip_three_octets ==
    <<"1", "9", "2", ".", "1", "6", "8", ".", "1">>

\* 09/Mar/2024 13:55:36 +0000
Date_2024 ==
    <<"0", "9", "/", "M", "a", "r", "/", "2", "0", "2", "4", " ", "1", "3",
    ":", "5", "5", ":", "3", "6", " ", "+", "0", "0", "0", "0">>

\* 31/Dec/1999 23:59:59 -0530
Date_1999 ==
    <<"3", "1", "/", "D", "e", "c", "/", "1", "9", "9", "9", " ", "2", "3",
    ":", "5", "9", ":", "5", "9", " ", "-", "0", "5", "3", "0">>

\* abc
Abc ==
    <<"a", "b", "c">>

\* /index.html
Url_index ==
    <<"/", "i", "n", "d", "e", "x", ".", "h", "t", "m", "l">>

\* the bare root path
Url_root ==
    <<"/">>

\* HTTP/1.1
Protocol_1_1 ==
    <<"H", "T", "T", "P", "/", "1", ".", "1">>

\* HTTP/1.0
Protocol_1_0 ==
    <<"H", "T", "T", "P", "/", "1", ".", "0">>

\* PATCH
Patch ==
    <<"P", "A", "T", "C", "H">>

\* 200
Status_200 ==
    <<"2", "0", "0">>

\* 404
Status_404 ==
    <<"4", "0", "4">>

\* 5432
Bytes_5432 ==
    <<"5", "4", "3", "2">>

\* 543
Bytes_543 ==
    <<"5", "4", "3">>

\* 0
Bytes_0 ==
    <<"0">>

\* 007
Bytes_007 ==
    <<"0", "0", "7">>

\* -
Dash ==
    <<"-">>

\* /x
Url_x ==
    <<"/", "x">>

Space == <<" ">>

Bracketed(t) == <<"[">> \o t \o <<"]">>

\* "<method> <url> <protocol>", quotes included
Quoted(method, url, protocol) ==
    <<"\"">> \o method \o Space \o url \o Space \o protocol \o <<"\"">>

\* the texts of toks joined by sep
RECURSIVE Join(_, _)
Join(toks, sep) ==
    IF toks = <<>> THEN <<>>
    ELSE IF Len(toks) = 1 THEN toks[1]
    ELSE toks[1] \o sep \o Join(Tail(toks), sep)

-----------------------------------------------------------------------------
(* Inputs *)

\* the longest run of tokens a free-form input is built from
MaxTokens == 2

\* the tokens of a free-form input: every token class well-formed and
\* malformed, to be repeated, dropped and put next to one another
Atoms ==
    { Ip_192_168_1_1, Ip_10_0_0_123, Ip_300_1_1_1, Ip_three_octets,
      Bracketed(Date_2024), Bracketed(Abc), Bracketed(<<>>),
      Quoted(Get, Url_index, Protocol_1_1), Quoted(Put_, Url_x, Protocol_1_0),
      Quoted(Patch, Url_x, Protocol_1_1), Quoted(Get, Url_root, Protocol_1_1),
      Status_200, Status_404, Bytes_5432, Bytes_0, Dash }

TokenRuns == UNION { [1..n -> Atoms] : n \in 0..MaxTokens }

Separators == { <<>>, Space }

\* a well-formed line's field values
FieldTokens ==
    [ ip : {Ip_192_168_1_1, Ip_10_0_0_123},
      timestamp : {Date_2024, Date_1999},
      method : METHODS,
      url : {Url_index, Url_root},
      protocol : {Protocol_1_1},
      status_code : {Status_200, Status_404},
      bytes_sent : {Bytes_5432, Bytes_543, Bytes_0, Bytes_007} ]

\* the field values whose five tokens are permuted
PermutedFieldTokens ==
    [ ip : {Ip_192_168_1_1, Ip_10_0_0_123},
      timestamp : {Date_2024},
      method : {Get, Delete},
      url : {Url_index},
      protocol : {Protocol_1_1},
      status_code : {Status_200, Status_404},
      bytes_sent : {Bytes_5432, Bytes_543, Bytes_0} ]

\* the five tokens of a line, in the standard order
FiveTokens(t) ==
    << t.ip, Bracketed(t.timestamp), Quoted(t.method, t.url, t.protocol),
       t.status_code, t.bytes_sent >>

\* '<ip> - - [<timestamp>] "<method> <url> <protocol>" <status> <bytes>'
StandardLine(t) ==
    Join(<<t.ip, Dash, Dash>> \o Tail(FiveTokens(t)), Space)

\* the five tokens in the order given, joined by single spaces
PermutedLine(t, order) ==
    Join([i \in 1..5 |-> FiveTokens(t)[order[i]]], Space)

Identity == [i \in 1..5 |-> i]

\* one token class of the standard line removed or corrupted
Corruptions ==
    { "no_timestamp", "no_brackets", "no_status_code", "ip_three_octets",
      "no_request_info", "no_protocol", "no_bytes_sent", "ip_out_of_range" }

\* the first three octets of a dotted quad
ThreeOctets(ip) == Slice(ip, 1, Max({i \in 1..Len(ip) : ip[i] = Dot}) - 1)

CorruptedLine(t, corruption) ==
    LET request == Quoted(t.method, t.url, t.protocol)
        with(toks) == Join(toks, Space)
    IN CASE corruption = "no_timestamp" ->
              with(<<t.ip, Dash, Dash, request, t.status_code, t.bytes_sent>>)
         [] corruption = "no_brackets" ->
              with(<<t.ip, Dash, Dash, t.timestamp, request, t.status_code, t.bytes_sent>>)
         [] corruption = "no_status_code" ->
              with(<<t.ip, Dash, Dash, Bracketed(t.timestamp), request, t.bytes_sent>>)
         [] corruption = "ip_three_octets" ->
              with(<<ThreeOctets(t.ip), Dash, Dash, Bracketed(t.timestamp), request,
                     t.status_code, t.bytes_sent>>)
         [] corruption = "ip_out_of_range" ->
              with(<<Ip_300_1_1_1, Dash, Dash, Bracketed(t.timestamp), request,
                     t.status_code, t.bytes_sent>>)
         [] corruption = "no_request_info" ->
              with(<<t.ip, Dash, Dash, Bracketed(t.timestamp), t.status_code, t.bytes_sent>>)
         [] corruption = "no_protocol" ->
              with(<<t.ip, Dash, Dash, Bracketed(t.timestamp),
                     <<"\"">> \o t.method \o Space \o t.url \o <<"\"">>,
                     t.status_code, t.bytes_sent>>)
         [] corruption = "no_bytes_sent" ->
              with(<<t.ip, Dash, Dash, Bracketed(t.timestamp), request, t.status_code>>)

\* the fields of the token class a corruption touches
Affected(corruption) ==
    CASE corruption \in {"no_timestamp", "no_brackets"} -> {"timestamp"}
      [] corruption = "no_status_code" -> {"status_code"}
      [] corruption \in {"ip_three_octets", "ip_out_of_range"} -> {"ip"}
      [] corruption \in {"no_request_info", "no_protocol"} -> {"method", "url", "protocol"}
      [] corruption = "no_bytes_sent" -> {"bytes_sent"}

\* the records a miner may answer with
Responses ==
    LET choices ==
            [ ip : {INVALID, PyStr(Ip_192_168_1_1), PyStr(<<>>)},
              timestamp : {INVALID, parse_date(Date_2024).value},
              method : {INVALID, PyStr(Get)},
              url : {INVALID, PyStr(Url_index), PyStr(<<>>)},
              protocol : {INVALID, PyStr(Protocol_1_1)},
              status_code : {INVALID, PyStr(Status_200)},
              bytes_sent : {INVALID, PyInt(5432), PyInt(0)} ]
    IN { [k \in keys |-> full[k]] : full \in choices,
                                    keys \in {FIELDS, FIELDS \ {"ip"}, FIELDS \ {"bytes_sent"}} }

-----------------------------------------------------------------------------
(* The state machine *)

\* parse is entered with its argument; the loop has not run
Entered(line, toks, how) ==
    /\ logline_input = line
    /\ remaining_logline = line
    /\ extracted_info = EmptyDict
    /\ pc = PatternKeys[1]
    /\ raised = "none"
    /\ tokens = toks
    /\ variant = how
    /\ response = EmptyDict
    /\ score = <<0, 0>>

\* free-form input: a run of tokens, put side by side or a space apart
Init ==
    \E run \in TokenRuns, sep \in Separators :
        Entered(Join(run, sep), run, sep)

\* a well-formed line in the standard order, or one with a token class corrupted
InitStandard ==
    \E t \in FieldTokens :
        \/ Entered(StandardLine(t), t, "standard")
        \/ \E c \in Corruptions : Entered(CorruptedLine(t, c), t, c)

\* the five tokens of a well-formed line in some order
InitPermuted ==
    \E t \in PermutedFieldTokens, order \in Permutations(1..5) :
        Entered(PermutedLine(t, order), t, order)

\* a miner's answer, to be scored
InitReward ==
    /\ response \in Responses
    /\ pc = "returned"
    /\ logline_input = <<>>
    /\ remaining_logline = <<>>
    /\ extracted_info = response
    /\ raised = "none"
    /\ tokens = <<>>
    /\ variant = "response"
    /\ score = <<0, 0>>

\* one iteration of the loop over the patterns
Extract(i) ==
    /\ pc = PatternKeys[i]
    /\ LET after == LoopBody(PatternKeys[i],
                             [remaining_logline |-> remaining_logline,
                              extracted_info |-> extracted_info])
       IN /\ remaining_logline' = after.remaining_logline
          /\ extracted_info' = after.extracted_info
    /\ pc' = IF i < Len(PatternKeys) THEN PatternKeys[i + 1] ELSE "transform"
    /\ UNCHANGED <<logline_input, raised, tokens, variant, response, score>>

\* transform_extracted_info and the return of parse, or the exception
Transform ==
    /\ pc = "transform"
    /\ LET r == transform_extracted_info(extracted_info)
       IN IF r.raised = "none"
          THEN /\ extracted_info' = r.value
               /\ response' = r.value
               /\ raised' = "none"
               /\ pc' = "returned"
          ELSE /\ extracted_info' = transform_ip(extracted_info)
               /\ response' = response
               /\ raised' = r.raised
               /\ pc' = "raised"
    /\ UNCHANGED <<logline_input, remaining_logline, tokens, variant, score>>

\* the validator scores the record it received
Reward ==
    /\ pc = "returned"
    /\ score' = reward(response)
    /\ pc' = "scored"
    /\ UNCHANGED <<logline_input, remaining_logline, extracted_info, raised,
                   tokens, variant, response>>

Next ==
    \/ \E i \in 1..Len(PatternKeys) : Extract(i)
    \/ Transform
    \/ Reward

Spec == Init /\ [][Next]_vars

SpecStandard == InitStandard /\ [][Next]_vars

SpecPermuted == InitPermuted /\ [][Next]_vars

SpecReward == InitReward /\ [][Reward]_vars

\* parse has returned its record
Returned == pc \in {"returned", "scored"}

\* parse has ended, by a return or an exception
Finished == pc \in {"returned", "scored", "raised"}

-----------------------------------------------------------------------------
(* Claims *)

\* the text holds a bracket pair whose interior is no date-time
HasUnparseableBrackets(line) ==
    LET m == search_timestamp(line)
    IN m.found /\ ~parse_date(m.groups.timestamp).ok

\* C1: parse returns a record for every input and never raises; when the
\* input holds a bracket pair whose interior is no date-time, such as [abc]
\* or [], parse still returns and timestamp is INVALID.
C1_ParseNeverRaises ==
    Finished =>
        /\ raised = "none"
        /\ HasUnparseableBrackets(logline_input) =>
               extracted_info["timestamp"] = INVALID

\* C2: the five tokens of a well-formed line, joined by single spaces in any
\* of the 120 orders, parse to the seven field values of the standard order,
\* whatever the number of digits of the byte count, 3 included.
C2_OrderInvariance ==
    Finished =>
        /\ raised = "none"
        /\ extracted_info = parse(PermutedLine(tokens, Identity)).value

\* the record a well-formed line stands for
Expected(t) ==
    [ ip |-> PyStr(t.ip),
      timestamp |-> parse_date(t.timestamp).value,
      method |-> PyStr(t.method),
      url |-> PyStr(t.url),
      protocol |-> PyStr(t.protocol),
      status_code |-> PyStr(t.status_code),
      bytes_sent |-> PyInt(int(t.bytes_sent)) ]

\* C3: a well-formed line in the standard order, its url any path that
\* starts with '/', the bare '/' included, parses to its token texts, the
\* parsed date-time and the integer value of the byte count.
C3_StandardOrderParse ==
    (Finished /\ variant = "standard") =>
        /\ raised = "none"
        /\ extracted_info = Expected(tokens)

\* a valid typed value of the field
ValidValue(field, x) ==
    CASE field = "ip" -> x.kind = "str" /\ ip_address(x.v)
      [] field = "timestamp" -> x.kind = "datetime"
      [] field = "method" -> x.kind = "str" /\ x.v \in METHODS
      [] field = "url" -> x.kind = "str" /\ At(x.v, 1) = "/"
      [] field = "protocol" ->
            x.kind = "str" /\ Len(x.v) = 8 /\ Slice(x.v, 1, 5) = <<"H", "T", "T", "P", "/">>
      [] field = "status_code" -> x.kind = "str" /\ Len(x.v) = 3 /\ AllDigits(x.v)
      [] field = "bytes_sent" -> x.kind = "int" /\ x.v >= 0

\* C4: every record parse returns has exactly the seven keys, no key such
\* as request_info besides, and each value is a valid typed value or INVALID.
C4_SevenFields ==
    Returned =>
        /\ DOMAIN extracted_info = FIELDS
        /\ \A k \in FIELDS :
              extracted_info[k] = INVALID \/ ValidValue(k, extracted_info[k])

\* a record of a line whose request triple matched with an unknown method,
\* beside a valid ip
C4_Witness ==
    /\ pc = "returned"
    /\ extracted_info["ip"] # INVALID
    /\ extracted_info["method"] = INVALID
    /\ extracted_info["url"] # INVALID
    /\ extracted_info["bytes_sent"] = INVALID

\* C5: with one token class of a well-formed line removed or corrupted,
\* parse sets the fields of that class to INVALID and every other field
\* keeps the value it has for the well-formed line.  Stated for the lines
\* whose url is not the bare '/', which C3's divergence does not touch.
C5_FieldIndependence ==
    (Finished /\ variant \in Corruptions /\ tokens.url # Url_root) =>
        /\ raised = "none"
        /\ \A k \in FIELDS :
              extracted_info[k] = IF k \in Affected(variant) THEN INVALID
                                  ELSE parse(StandardLine(tokens)).value[k]

\* C6: a status_code other than INVALID is a run of three digits of the
\* original input with no digit and no '.' right before or after it there.
C6_StatusCodeIsolation ==
    (Returned /\ extracted_info["status_code"] # INVALID) =>
        \E i \in 1..Len(logline_input) :
            /\ StatusAt(logline_input, i)
            /\ Slice(logline_input, i, i + 2) = extracted_info["status_code"].v

\* the working text the request pattern is searched in
RequestStageText(line) ==
    Loop(1, 2, [remaining_logline |-> line, extracted_info |-> EmptyDict]).remaining_logline

\* C7: method, url and protocol are set as a unit: all INVALID when the
\* request pattern does not match; method INVALID and url, protocol the
\* captured text when it matches with a method outside the enumeration; all
\* three the captured text otherwise.  No other pattern of INVALID occurs.
C7_RequestUnit ==
    Returned =>
        LET m == search_request_info(RequestStageText(logline_input))
            method == extracted_info["method"]
            url == extracted_info["url"]
            protocol == extracted_info["protocol"]
        IN /\ ~m.found => method = INVALID /\ url = INVALID /\ protocol = INVALID
           /\ (m.found /\ m.groups.method \notin METHODS) =>
                 /\ method = INVALID
                 /\ url = PyStr(m.groups.url) /\ protocol = PyStr(m.groups.protocol)
           /\ (m.found /\ m.groups.method \in METHODS) =>
                 /\ method = PyStr(m.groups.method)
                 /\ url = PyStr(m.groups.url) /\ protocol = PyStr(m.groups.protocol)
           /\ <<method = INVALID, url = INVALID, protocol = INVALID>>
                 \in { <<TRUE, TRUE, TRUE>>, <<TRUE, FALSE, FALSE>>, <<FALSE, FALSE, FALSE>> }

\* "PATCH /x HTTP/1.1" has been parsed
C7_Witness ==
    /\ pc = "returned"
    /\ logline_input = Quoted(Patch, Url_x, Protocol_1_1)
    /\ extracted_info["method"] = INVALID
    /\ extracted_info["url"] = PyStr(Url_x)
    /\ extracted_info["protocol"] = PyStr(Protocol_1_1)

\* C8: parse of the empty string returns, without raising, a record whose
\* seven fields are all INVALID.
C8_EmptyInput ==
    (Finished /\ logline_input = <<>>) =>
        /\ raised = "none"
        /\ DOMAIN extracted_info = FIELDS
        /\ \A k \in FIELDS : extracted_info[k] = INVALID

\* parse('') has returned
C8_Witness ==
    /\ pc = "returned"
    /\ logline_input = <<>>
    /\ raised = "none"

\* the token classes an input may hold twice: the well-formed tokens of
\* each, and the fields each fills
TokenClasses ==
    { [tokens |-> {Ip_192_168_1_1, Ip_10_0_0_123}, fields |-> {"ip"}],
      [tokens |-> {Bracketed(Date_2024)}, fields |-> {"timestamp"}],
      [tokens |-> {Quoted(Get, Url_index, Protocol_1_1), Quoted(Put_, Url_x, Protocol_1_0)},
       fields |-> {"method", "url", "protocol"}],
      [tokens |-> {Status_200, Status_404}, fields |-> {"status_code"}] }

\* the input is two tokens of the class, a space apart
TwoOf(class) ==
    /\ Len(tokens) = 2
    /\ variant = Space
    /\ tokens[1] \in class.tokens /\ tokens[2] \in class.tokens

\* C9: when the input holds two occurrences of one token class, the fields
\* of the class take their values from the leftmost occurrence.
C9_LeftmostOccurrence ==
    \A class \in TokenClasses :
        (Finished /\ TwoOf(class)) =>
            /\ raised = "none"
            /\ \A k \in class.fields : extracted_info[k] = parse(tokens[1]).value[k]

\* the rest of C9: the characters of the other occurrence contribute to no
\* field, so the record is that of the leftmost occurrence alone.  The later
\* stages search what the earlier ones left: of '200 404' the second run
\* becomes bytes_sent, as does the first octet of a second address.
C9_OtherOccurrenceUnused ==
    \A class \in TokenClasses :
        (Finished /\ TwoOf(class)) => extracted_info = parse(tokens[1]).value

\* C10: reward returns the number of the seven fields that are present, not
\* INVALID and not the empty string, over 7; so a record whose fields are
\* all valid, one with bytes_sent = 0 included, scores 7/7.
C10_QualityScore ==
    pc = "scored" =>
        score = << Cardinality({k \in FIELDS :
                                  /\ Has(response, k)
                                  /\ response[k] # INVALID
                                  /\ response[k] # PyStr(<<>>)}),
                   7 >>

=============================================================================
